---- MODULE Spec2Model ----
(***************************************************************************)
(* Model of package funcs (funcs.go): the template helper functions        *)
(* dateFormat, htmlEscape, htmlUnescape, safeHTML, safeURL, dict, querify, *)
(* split and loop.  Every helper is stateless, so the state of the model   *)
(* is the last call made by the template engine: the helper's name, its    *)
(* arguments, what it returned, its error and whether it panicked.         *)
(*                                                                         *)
(* A Go string is a sequence of one-character strings (<<"a", "=", "1">>   *)
(* is "a=1"); an interface{} value is a record with a tag.                 *)
(***************************************************************************)
EXTENDS Integers, Sequences, FiniteSets, TLC

VARIABLES op, args, ret, err, panicked, now, piped

vars == <<op, args, ret, err, panicked, now, piped>>

---------------------------------------------------------------------------
(* Bounds of the model *)

\* longest argument list given to dict and querify
MaxArgs == 6
\* longest string given to htmlEscape
MaxLen == 3
\* longest string given to htmlUnescape directly
MaxEntityLen == 4
\* longest layout given to dateFormat
MaxLayoutLen == 4
\* longest string and longest delimiter given to split
MaxSplitLen == 4
MaxDelimLen == 2
\* loop is called with n in -MaxN .. MaxN
MaxN == 4

---------------------------------------------------------------------------
(* Strings and bytes *)

\* the strings over alphabet A of length at most n
StringsOver(A, n) == UNION {[1..k -> A] : k \in 0..n}

\* the printable ASCII characters, from byte 32 to byte 126 (byte 96, the grave
\* accent, is spelled out: it occurs in no string of the model)
Printable ==
  <<" ", "!", "\"", "#", "$", "%", "&", "'", "(", ")", "*", "+", ",", "-", ".", "/",
    "0", "1", "2", "3", "4", "5", "6", "7", "8", "9", ":", ";", "<", "=", ">", "?",
    "@", "A", "B", "C", "D", "E", "F", "G", "H", "I", "J", "K", "L", "M", "N", "O",
    "P", "Q", "R", "S", "T", "U", "V", "W", "X", "Y", "Z", "[", "\\", "]", "^", "_",
    "grave", "a", "b", "c", "d", "e", "f", "g", "h", "i", "j", "k", "l", "m", "n", "o",
    "p", "q", "r", "s", "t", "u", "v", "w", "x", "y", "z", "{", "|", "}", "~">>

\* the byte value of a character
Ord(c) == 31 + (CHOOSE i \in 1..Len(Printable) : Printable[i] = c)

Digits == <<"0", "1", "2", "3", "4", "5", "6", "7", "8", "9">>

UpperHex == Digits \o <<"A", "B", "C", "D", "E", "F">>

isDigit(c) == \E i \in 1..Len(Digits) : Digits[i] = c

digitValue(c) == (CHOOSE i \in 1..Len(Digits) : Digits[i] = c) - 1

isAlnum(c) ==
  \/ isDigit(c)
  \/ (Ord(c) >= Ord("a") /\ Ord(c) <= Ord("z"))
  \/ (Ord(c) >= Ord("A") /\ Ord(c) <= Ord("Z"))

\* bytewise comparison of two strings, Go's s < t
RECURSIVE StrLess(_, _)
StrLess(s, t) ==
  IF t = <<>> THEN FALSE
  ELSE IF s = <<>> THEN TRUE
  ELSE IF Ord(Head(s)) /= Ord(Head(t)) THEN Ord(Head(s)) < Ord(Head(t))
  ELSE StrLess(Tail(s), Tail(t))

\* strings.Index: the 0-based position of the first sep in s, or -1
Index(s, sep) ==
  LET hits == {i \in 0..(Len(s) - Len(sep)) : SubSeq(s, i + 1, i + Len(sep)) = sep}
  IN IF hits = {} THEN -1 ELSE CHOOSE i \in hits : \A j \in hits : i <= j

\* strings.Join
RECURSIVE Join(_, _)
Join(elems, sep) ==
  IF elems = <<>> THEN <<>>
  ELSE IF Len(elems) = 1 THEN elems[1]
  ELSE elems[1] \o sep \o Join(Tail(elems), sep)

\* the decimal digits of n >= 0, strconv's formatting of a non-negative int
RECURSIVE utoa(_)
utoa(n) == IF n < 10 THEN <<Digits[n + 1]>> ELSE utoa(n \div 10) \o <<Digits[(n % 10) + 1]>>

\* strconv.Itoa
Itoa(n) == IF n < 0 THEN <<"-">> \o utoa(-n) ELSE utoa(n)

\* s left-padded with zeros to width
RECURSIVE padZero(_, _)
padZero(s, width) == IF Len(s) >= width THEN s ELSE padZero(<<"0">> \o s, width)

\* time's appendInt for x >= 0: decimal, zero-padded to width
appendInt(x, width) == padZero(utoa(x), width)

---------------------------------------------------------------------------
(* interface{} values *)

StrV(s) == [tag |-> "string", s |-> s]

IntV(n) == [tag |-> "int", n |-> n]

BoolV(b) == [tag |-> "bool", b |-> b]

\* the untyped nil
NilV == [tag |-> "nil"]

\* struct{}{}: a value the cast package converts neither to string nor to time
StructV == [tag |-> "struct"]

\* a time.Time: a date of the calendar and the nanoseconds within the second
TimeV(y, m, d, ns) == [tag |-> "time", year |-> y, month |-> m, day |-> d, ns |-> ns]

\* a []string and a []struct{}
Slice(elems) == [tag |-> "slice", elems |-> elems]

\* a map[string]interface{}, as a function from its keys
MapV(m) == [tag |-> "map", m |-> m]

\* template.HTML and template.URL
HTML(s) == [tag |-> "HTML", s |-> s]

URL(s) == [tag |-> "URL", s |-> s]

\* the nil error
NoError == "<nil>"

\* no value at all: what is left of a call that panicked, a clock never read
NoValue == [tag |-> "none"]

\* a call's outcome: the value and the error it returns
Result(v, e) == [val |-> v, err |-> e, panic |-> FALSE]

\* the outcome of a call that panics: it returns nothing
Panic == [val |-> NoValue, err |-> NoError, panic |-> TRUE]

\* cast.ToStringE, on the kinds of value the model passes
ToStringE(v) ==
  CASE v.tag = "string" -> Result(v.s, NoError)
    [] v.tag = "int" -> Result(Itoa(v.n), NoError)
    [] v.tag = "bool" ->
         Result(IF v.b THEN <<"t", "r", "u", "e">> ELSE <<"f", "a", "l", "s", "e">>, NoError)
    [] v.tag = "nil" -> Result(<<>>, NoError)
    [] OTHER -> Result(<<>>, "unable to cast to string")

\* fmt.Sprintf("%v", v)
Sprint(v) ==
  CASE v.tag = "string" -> v.s
    [] v.tag = "int" -> Itoa(v.n)
    [] v.tag = "bool" -> IF v.b THEN <<"t", "r", "u", "e">> ELSE <<"f", "a", "l", "s", "e">>
    [] v.tag = "nil" -> <<"<", "n", "i", "l", ">">>
    [] v.tag = "struct" -> <<"{", "}">>

---------------------------------------------------------------------------
(* html.EscapeString and html.UnescapeString *)

\* htmlEscaper, the replacer behind html.EscapeString
escapeChar(c) ==
  CASE c = "&" -> <<"&", "a", "m", "p", ";">>
    [] c = "'" -> <<"&", "#", "3", "9", ";">>
    [] c = "<" -> <<"&", "l", "t", ";">>
    [] c = ">" -> <<"&", "g", "t", ";">>
    [] c = "\"" -> <<"&", "#", "3", "4", ";">>
    [] OTHER -> <<c>>

RECURSIVE EscapeString(_)
EscapeString(s) == IF s = <<>> THEN <<>> ELSE escapeChar(Head(s)) \o EscapeString(Tail(s))

\* the table of named character references, restricted to the names that can
\* be written with the characters of the model's strings; "" is no entry
entity(name) ==
  CASE name = <<"a", "m", "p", ";">> -> "&"
    [] name = <<"a", "m", "p">> -> "&"
    [] name = <<"l", "t", ";">> -> "<"
    [] name = <<"l", "t">> -> "<"
    [] name = <<"g", "t", ";">> -> ">"
    [] name = <<"g", "t">> -> ">"
    [] name = <<"l", "l", ";">> -> "U+226A"
    [] OTHER -> ""

longestEntityWithoutSemicolon == 6

\* the character of code point x, as unescapeEntity writes it
runeOf(x) ==
  IF x >= 32 /\ x <= 126 THEN Printable[x - 31]
  ELSE IF x >= 128 /\ x <= 159 THEN "cp1252:" \o ToString(x)
  ELSE IF x = 0 \/ (x >= 55296 /\ x <= 57343) \/ x > 1114111 THEN "U+FFFD"
  ELSE "U+" \o ToString(x)

isHexDigit(c) == isDigit(c) \/ c \in {"a", "b", "c", "d", "e", "f", "A", "B", "C", "D", "E", "F"}

hexValue(c) ==
  IF isDigit(c) THEN digitValue(c)
  ELSE 10 + ((CHOOSE i \in 11..16 : UpperHex[i] = c \/ Ord(UpperHex[i]) + 32 = Ord(c)) - 11)

\* the value of the digit string s in the given base
RECURSIVE digitsValue(_, _)
digitsValue(s, base) ==
  IF s = <<>> THEN 0
  ELSE base * digitsValue(SubSeq(s, 1, Len(s) - 1), base) + hexValue(s[Len(s)])

\* whether c is of the class of characters a scan accepts
inClass(c, class) ==
  CASE class = "hex" -> isHexDigit(c)
    [] class = "digit" -> isDigit(c)
    [] class = "alnum" -> isAlnum(c)
    [] class = "zero" -> c = "0"
    [] class = "nine" -> c = "9"

\* the 0-based index of the first character of s at or after i outside the class
RECURSIVE scanWhile(_, _, _)
scanWhile(s, i, class) ==
  IF i < Len(s) /\ inClass(s[i + 1], class) THEN scanWhile(s, i + 1, class) ELSE i

\* an entity left as it stands: its first n characters are copied
literalEntity(s, n) == [out |-> SubSeq(s, 1, n), n |-> n]

\* unescapeEntity on "&#...": s[1] = "&", s[2] = "#"
numericEntity(s) ==
  IF Len(s) <= 3 THEN literalEntity(s, 1)
  ELSE LET hex == s[3] \in {"x", "X"}
           start == IF hex THEN 3 ELSE 2
           j == scanWhile(s, start, IF hex THEN "hex" ELSE "digit")
           x == digitsValue(SubSeq(s, start + 1, j), IF hex THEN 16 ELSE 10)
           i == IF j < Len(s) /\ s[j + 1] = ";" THEN j + 1 ELSE j
       IN IF i <= 3 THEN literalEntity(s, 1) ELSE [out |-> <<runeOf(x)>>, n |-> i]

\* unescapeEntity on a named reference: s[1] = "&"
namedEntity(s) ==
  LET j == scanWhile(s, 1, "alnum")
      i == IF j < Len(s) /\ s[j + 1] = ";" THEN j + 1 ELSE j
      entityName == SubSeq(s, 2, i)
      maxLen == IF Len(entityName) - 1 > longestEntityWithoutSemicolon
                THEN longestEntityWithoutSemicolon ELSE Len(entityName) - 1
      prefixes == {k \in 2..maxLen : entity(SubSeq(entityName, 1, k)) /= ""}
  IN IF Len(entityName) = 0 THEN literalEntity(s, i)
     ELSE IF entity(entityName) /= "" THEN [out |-> <<entity(entityName)>>, n |-> i]
     ELSE IF prefixes /= {}
       THEN LET k == CHOOSE k \in prefixes : \A l \in prefixes : l <= k
            IN [out |-> <<entity(SubSeq(entityName, 1, k))>>, n |-> k + 1]
     ELSE literalEntity(s, i)

\* unescapeEntity: s starts with "&"; the characters written and the number read
unescapeEntity(s) ==
  IF Len(s) <= 1 THEN literalEntity(s, 1)
  ELSE IF s[2] = "#" THEN numericEntity(s)
  ELSE namedEntity(s)

RECURSIVE UnescapeString(_)
UnescapeString(s) ==
  LET i == Index(s, <<"&">>)
  IN IF i < 0 THEN s
     ELSE LET e == unescapeEntity(SubSeq(s, i + 1, Len(s)))
          IN SubSeq(s, 1, i) \o e.out \o UnescapeString(SubSeq(s, i + e.n + 1, Len(s)))

---------------------------------------------------------------------------
(* net/url: QueryEscape and Values.Encode *)

\* shouldEscape(c, encodeQueryComponent)
shouldEscape(c) == ~(isAlnum(c) \/ c \in {"-", "_", ".", "~"})

escapeByte(c) ==
  IF c = " " THEN <<"+">>
  ELSE IF shouldEscape(c) THEN <<"%", UpperHex[(Ord(c) \div 16) + 1], UpperHex[(Ord(c) % 16) + 1]>>
  ELSE <<c>>

RECURSIVE QueryEscape(_)
QueryEscape(s) == IF s = <<>> THEN <<>> ELSE escapeByte(Head(s)) \o QueryEscape(Tail(s))

\* slices.Sort on the keys of a map: the strings of S in ascending byte order
RECURSIVE sortStrings(_)
sortStrings(S) ==
  IF S = {} THEN <<>>
  ELSE LET least == CHOOSE x \in S : \A y \in S \ {x} : StrLess(x, y)
       IN <<least>> \o sortStrings(S \ {least})

\* Values.Add: the value is appended to the key's list
Add(v, key, value) ==
  [k \in DOMAIN v \cup {key} |->
     IF k = key THEN (IF key \in DOMAIN v THEN Append(v[key], value) ELSE <<value>>)
     ELSE v[k]]

\* the inner loop of Encode: one key=value per value of the key
RECURSIVE encodeValues(_, _, _)
encodeValues(keyEscaped, vs, buf) ==
  IF vs = <<>> THEN buf
  ELSE encodeValues(keyEscaped, Tail(vs),
         (IF Len(buf) > 0 THEN buf \o <<"&">> ELSE buf)
           \o keyEscaped \o <<"=">> \o QueryEscape(Head(vs)))

\* the outer loop of Encode, over the keys in the order given
RECURSIVE encodeKeys(_, _, _)
encodeKeys(v, keys, buf) ==
  IF keys = <<>> THEN buf
  ELSE encodeKeys(v, Tail(keys), encodeValues(QueryEscape(Head(keys)), v[Head(keys)], buf))

\* Values.Encode: "key=value" of every value, joined by "&", sorted by key
Encode(v) ==
  IF DOMAIN v = {} THEN <<>> ELSE encodeKeys(v, sortStrings(DOMAIN v), <<>>)

---------------------------------------------------------------------------
(* strings.Split *)

\* explode: s split into its characters, none for the empty string
explode(s) == [i \in 1..Len(s) |-> <<s[i]>>]

\* genSplit with n < 0 and a non-empty separator
RECURSIVE genSplit(_, _)
genSplit(s, sep) ==
  LET i == Index(s, sep)
  IN IF i < 0 THEN <<s>>
     ELSE <<SubSeq(s, 1, i)>> \o genSplit(SubSeq(s, i + Len(sep) + 1, Len(s)), sep)

\* strings.Split
Split(s, sep) == IF sep = <<>> THEN explode(s) ELSE genSplit(s, sep)

---------------------------------------------------------------------------
(* package time: Format, and Parse of the layout 2006-01-02 *)

isLeap(year) == year % 4 = 0 /\ (year % 100 /= 0 \/ year % 400 = 0)

\* daysBefore[m]: the days of a non-leap year before month m
daysBefore == <<0, 31, 59, 90, 120, 151, 181, 212, 243, 273, 304, 334, 365>>

daysIn(month, year) ==
  IF month = 2 /\ isLeap(year) THEN 29 ELSE daysBefore[month + 1] - daysBefore[month]

\* Time.YearDay
YearDay(t) == daysBefore[t.month] + t.day + (IF t.month > 2 /\ isLeap(t.year) THEN 1 ELSE 0)

\* the layout element that starts at 0-based index i of the layout, if one does:
\* its kind, its length in the layout and, for a fractional second, its digits.
\* The cases are those of nextStdChunk that a layout of the characters 2 0 6 . 9
\* can reach; every other character of such a layout is literal text.
stdAt(layout, i) ==
  LET c == layout[i + 1]
      n == Len(layout)
      none == [std |-> "none", len |-> 0, digits |-> 0]
  IN CASE c = "0" ->
            IF n >= i + 2 /\ layout[i + 2] = "2" THEN [std |-> "stdZeroDay", len |-> 2, digits |-> 0]
            ELSE IF n >= i + 2 /\ layout[i + 2] = "6" THEN [std |-> "stdYear", len |-> 2, digits |-> 0]
            ELSE IF n >= i + 3 /\ layout[i + 2] = "0" /\ layout[i + 3] = "2"
              THEN [std |-> "stdZeroYearDay", len |-> 3, digits |-> 0]
            ELSE none
       [] c = "2" ->
            IF n >= i + 4 /\ SubSeq(layout, i + 1, i + 4) = <<"2", "0", "0", "6">>
              THEN [std |-> "stdLongYear", len |-> 4, digits |-> 0]
            ELSE [std |-> "stdDay", len |-> 1, digits |-> 0]
       [] c = "." ->
            IF i + 1 < n /\ layout[i + 2] \in {"0", "9"}
              THEN LET j == scanWhile(layout, i + 1, IF layout[i + 2] = "0" THEN "zero" ELSE "nine")
                   IN IF j < n /\ isDigit(layout[j + 1]) THEN none
                      ELSE [std |-> IF layout[i + 2] = "9" THEN "stdFracSecond9" ELSE "stdFracSecond0",
                            len |-> j - i, digits |-> j - (i + 1)]
            ELSE none
       [] OTHER -> none

\* nextStdChunk: the text before the first layout element, the element, the rest
nextStdChunk(layout) ==
  LET hits == {i \in 0..(Len(layout) - 1) : stdAt(layout, i).std /= "none"}
  IN IF hits = {} THEN [prefix |-> layout, std |-> "none", digits |-> 0, suffix |-> <<>>]
     ELSE LET i == CHOOSE i \in hits : \A j \in hits : i <= j
              e == stdAt(layout, i)
          IN [prefix |-> SubSeq(layout, 1, i), std |-> e.std, digits |-> e.digits,
              suffix |-> SubSeq(layout, i + e.len + 1, Len(layout))]

\* s without its trailing zeros
RECURSIVE trimZeros(_)
trimZeros(s) ==
  IF s /= <<>> /\ s[Len(s)] = "0" THEN trimZeros(SubSeq(s, 1, Len(s) - 1)) ELSE s

\* appendNano: the fractional second to n digits; a .999 field drops its
\* trailing zeros, and the point with them when nothing is left
appendNano(nanosec, std, n) ==
  LET trim == std = "stdFracSecond9"
      frac == SubSeq(appendInt(nanosec, 9), 1, IF n < 9 THEN n ELSE 9)
  IN IF trim /\ (n = 0 \/ nanosec = 0) THEN <<>>
     ELSE IF ~trim THEN <<".">> \o frac
     ELSE IF trimZeros(frac) = <<>> THEN <<>>
     ELSE <<".">> \o trimZeros(frac)

\* what one layout element writes for time t
appendStd(t, chunk) ==
  CASE chunk.std = "stdLongYear" -> appendInt(t.year, 4)
    [] chunk.std = "stdYear" -> appendInt(t.year % 100, 2)
    [] chunk.std = "stdDay" -> appendInt(t.day, 0)
    [] chunk.std = "stdZeroDay" -> appendInt(t.day, 2)
    [] chunk.std = "stdZeroYearDay" -> appendInt(YearDay(t), 3)
    [] chunk.std \in {"stdFracSecond0", "stdFracSecond9"} -> appendNano(t.ns, chunk.std, chunk.digits)

\* Time.Format
RECURSIVE Format(_, _)
Format(t, layout) ==
  IF layout = <<>> THEN <<>>
  ELSE LET chunk == nextStdChunk(layout)
       IN chunk.prefix
            \o (IF chunk.std = "none" THEN <<>>
                ELSE appendStd(t, chunk) \o Format(t, chunk.suffix))

\* time.Parse("2006-01-02", s)
parseDate(s) ==
  LET shaped == /\ Len(s) = 10
                /\ s[5] = "-" /\ s[8] = "-"
                /\ \A i \in {1, 2, 3, 4, 6, 7, 9, 10} : isDigit(s[i])
      year == digitsValue(SubSeq(s, 1, 4), 10)
      month == digitsValue(SubSeq(s, 6, 7), 10)
      day == digitsValue(SubSeq(s, 9, 10), 10)
  IN IF ~shaped THEN Result(NoValue, "cannot parse as 2006-01-02")
     ELSE IF month < 1 \/ month > 12 THEN Result(NoValue, "month out of range")
     ELSE IF day < 1 \/ day > daysIn(month, year) THEN Result(NoValue, "day out of range")
     ELSE Result(TimeV(year, month, day, 0), NoError)

\* cast.ToTimeE, on the kinds of value the model passes: a time is itself, a
\* string is parsed (of the layouts cast tries, 2006-01-02 is the only one a
\* string of digits, hyphens and lower-case letters can match), any other kind
\* of value the model passes is refused; the model passes no number
ToTimeE(v) ==
  CASE v.tag = "time" -> Result(v, NoError)
    [] v.tag = "string" ->
         IF parseDate(v.s).err = NoError THEN parseDate(v.s)
         ELSE Result(NoValue, "unable to parse date")
    [] OTHER -> Result(NoValue, "unable to cast to Time")

---------------------------------------------------------------------------
(* funcs.go *)

\* loop, were it to make one element too many
loopOffByOne(n) ==
  IF n < 0 THEN Panic ELSE Result(Slice([i \in 1..(n + 1) |-> StructV]), NoError)

\* loop: make([]struct{}, n), which panics (makeslice: len out of range) for n < 0
loop(n) ==
  IF n < 0 THEN Panic ELSE Result(Slice([i \in 1..n |-> StructV]), NoError)

\* dateFormat, were it to format the zero time when the value cannot be coerced
dateFormatIgnoringError(layout, v, clock) ==
  IF v = NilV THEN Result(StrV(Format(clock, layout)), NoError)
  ELSE LET t == ToTimeE(v)
       IN Result(StrV(Format(IF t.err = NoError THEN t.val ELSE TimeV(1, 1, 1, 0), layout)), NoError)

\* dateFormat; clock is what time.Now returns when it is read
dateFormat(layout, v, clock) ==
  IF v = NilV THEN Result(StrV(Format(clock, layout)), NoError)
  ELSE LET t == ToTimeE(v)
       IN IF t.err /= NoError THEN Result(StrV(<<>>), t.err)
          ELSE Result(StrV(Format(t.val, layout)), NoError)

\* "&" replaced by "&amp;" throughout s
RECURSIVE escapeAmp(_)
escapeAmp(s) ==
  IF s = <<>> THEN <<>>
  ELSE (IF Head(s) = "&" THEN escapeChar("&") ELSE <<Head(s)>>) \o escapeAmp(Tail(s))

\* htmlEscape, were it to replace "&" after the other characters, and so
\* escape the entities it has just written
htmlEscapeAmpLast(in) ==
  LET conv == ToStringE(in)
  IN IF conv.err /= NoError THEN Result(StrV(<<>>), conv.err)
     ELSE Result(StrV(escapeAmp(EscapeString(SelectSeq(conv.val, LAMBDA c : c /= "&")))), NoError)

htmlEscape(in) ==
  LET conv == ToStringE(in)
  IN IF conv.err /= NoError THEN Result(StrV(<<>>), conv.err)
     ELSE Result(StrV(EscapeString(conv.val)), NoError)

htmlUnescape(in) ==
  LET conv == ToStringE(in)
  IN IF conv.err /= NoError THEN Result(StrV(<<>>), conv.err)
     ELSE Result(StrV(UnescapeString(conv.val)), NoError)

\* dict[key] = value
mapPut(dict, key, value) == [k \in DOMAIN dict \cup {key} |-> IF k = key THEN value ELSE dict[k]]

\* the loop of dictionary from 0-based index i on
RECURSIVE dictionaryFrom(_, _, _)
dictionaryFrom(values, i, dict) ==
  IF i >= Len(values) THEN Result(MapV(dict), NoError)
  ELSE IF values[i + 1].tag /= "string" THEN Result(NilV, "dict keys must be strings")
  ELSE dictionaryFrom(values, i + 2, mapPut(dict, values[i + 1].s, values[i + 2]))

\* the loop of dictionary, were it to keep the first value of a repeated key
RECURSIVE dictionaryFirstWins(_, _, _)
dictionaryFirstWins(values, i, dict) ==
  IF i >= Len(values) THEN Result(MapV(dict), NoError)
  ELSE IF values[i + 1].tag /= "string" THEN Result(NilV, "dict keys must be strings")
  ELSE dictionaryFirstWins(values, i + 2,
         IF values[i + 1].s \in DOMAIN dict THEN dict
         ELSE mapPut(dict, values[i + 1].s, values[i + 2]))

\* dictionary, were it to check the keys before the argument count
dictionaryKeysFirst(values) ==
  IF \E i \in 1..Len(values) : i % 2 = 1 /\ values[i].tag /= "string"
    THEN Result(NilV, "dict keys must be strings")
  ELSE IF Len(values) % 2 /= 0 THEN Result(NilV, "invalid dict call")
  ELSE dictionaryFrom(values, 0, <<>>)

\* the loop of dictionary, were it to pass over a pair whose key is no string
RECURSIVE dictionarySkipping(_, _, _)
dictionarySkipping(values, i, dict) ==
  IF i >= Len(values) THEN Result(MapV(dict), NoError)
  ELSE IF values[i + 1].tag /= "string" THEN dictionarySkipping(values, i + 2, dict)
  ELSE dictionarySkipping(values, i + 2, mapPut(dict, values[i + 1].s, values[i + 2]))

dictionarySkippingBadKeys(values) ==
  IF Len(values) % 2 /= 0 THEN Result(NilV, "invalid dict call")
  ELSE dictionarySkipping(values, 0, <<>>)

dictionaryKeepingFirst(values) ==
  IF Len(values) % 2 /= 0 THEN Result(NilV, "invalid dict call")
  ELSE dictionaryFirstWins(values, 0, <<>>)

dictionary(values) ==
  IF Len(values) % 2 /= 0 THEN Result(NilV, "invalid dict call")
  ELSE dictionaryFrom(values, 0, <<>>)

\* the range loop of querify: qs.Add of every entry, in the order the map's
\* iteration gives the keys
RECURSIVE addAll(_, _, _)
addAll(qs, vals, order) ==
  IF order = <<>> THEN qs
  ELSE addAll(Add(qs, Head(order), Sprint(vals[Head(order)])), vals, Tail(order))

\* querify, were it to write the pairs as the map's iteration gives them
querifyUnsorted(params, order) ==
  LET vals == dictionary(params)
  IN IF vals.err /= NoError THEN Result(StrV(<<>>), "querify keys must be strings")
     ELSE Result(StrV(encodeKeys(addAll(<<>>, vals.val.m, order), order, <<>>)), NoError)

\* querify, were it to hand on the error of dictionary
querifyPassingError(params, order) ==
  LET vals == dictionary(params)
  IN IF vals.err /= NoError THEN Result(StrV(<<>>), vals.err)
     ELSE Result(StrV(Encode(addAll(<<>>, vals.val.m, order))), NoError)

\* querify; order is the order in which the map's iteration gives the keys
querify(params, order) ==
  LET vals == dictionary(params)
  IN IF vals.err /= NoError THEN Result(StrV(<<>>), "querify keys must be strings")
     ELSE Result(StrV(Encode(addAll(<<>>, vals.val.m, order))), NoError)

safeHTML(a) == LET conv == ToStringE(a) IN Result(HTML(conv.val), conv.err)

safeURL(a) == LET conv == ToStringE(a) IN Result(URL(conv.val), conv.err)

\* split, were it to hand its arguments to strings.Split the wrong way round
splitSwapped(a, delimiter) ==
  LET aStr == ToStringE(a)
  IN IF aStr.err /= NoError THEN Result(Slice(<<>>), aStr.err)
     ELSE Result(Slice(Split(delimiter, aStr.val)), NoError)

split(a, delimiter) ==
  LET aStr == ToStringE(a)
  IN IF aStr.err /= NoError THEN Result(Slice(<<>>), aStr.err)
     ELSE Result(Slice(Split(aStr.val, delimiter)), NoError)

\* the names of Map, the template.FuncMap
Map == {"dateFormat", "htmlEscape", "htmlUnescape", "safeHTML", "safeURL",
        "dict", "querify", "split", "loop"}

---------------------------------------------------------------------------
(* The calls a template makes *)

\* the arguments of dict and querify
DictValues == {StrV(<<>>), StrV(<<"a">>), StrV(<<"a", "&">>), IntV(10), NilV}

ArgLists ==
  UNION {[1..k -> DictValues] : k \in 0..MaxArgs}
    \cup {<<StrV(<<"b">>), StrV(<<"2">>), StrV(<<"a">>), StrV(<<"1">>)>>}

\* the orders in which the iteration of a map can give its keys
Orders(m) ==
  {order \in [1..Cardinality(DOMAIN m) -> DOMAIN m] :
     \A k \in DOMAIN m : \E i \in 1..Cardinality(DOMAIN m) : order[i] = k}

\* values that are no strings: some cast converts, some it does not
Scalars == {IntV(-7), BoolV(TRUE), NilV, StructV}

\* the characters htmlEscape replaces
HtmlChars == {"<", ">", "&", "'", "\""}

EscapeInputs ==
  {StrV(s) : s \in StringsOver(HtmlChars, MaxLen)}
    \cup {StrV(<<"a", "&", "b">>), StrV(<<"&", "l", "t", ";">>)} \cup Scalars

\* text with character references, well formed and not
EntityChars == {"&", "#", "3", "9", ";", "l", "t"}

UnescapeInputs == {StrV(s) : s \in StringsOver(EntityChars, MaxEntityLen)} \cup Scalars

SplitChars == {"a", ","}

SplitInputs ==
  {StrV(s) : s \in StringsOver(SplitChars, MaxSplitLen)}
    \cup {StrV(<<"a", ",", "b", ",", ",", "c">>)} \cup Scalars

Delimiters == StringsOver(SplitChars, MaxDelimLen)

LayoutChars == {"2", "0", "6", ".", "9"}

Layouts == StringsOver(LayoutChars, MaxLayoutLen)

\* the times the clock may show
Clock == {TimeV(2026, 11, 4, 0), TimeV(2024, 3, 1, 120000000)}

\* the values given to dateFormat
DateInputs ==
  {NilV,
   StrV(<<"n", "o", "t", "-", "a", "-", "d", "a", "t", "e">>),
   StrV(<<"2", "0", "2", "0", "-", "0", "2", "-", "2", "9">>),
   StrV(<<"2", "0", "2", "1", "-", "0", "2", "-", "2", "9">>),
   StrV(<<"2", "0", "0", "6", "-", "1", "3", "-", "0", "2">>),
   StrV(<<>>),
   TimeV(2006, 1, 2, 5000000),
   BoolV(TRUE), StructV}

SafeInputs == {StrV(<<"<", "b", ">">>), StrV(<<>>)} \cup Scalars

\* the engine is between two pipelines
Idle == op = "none"

\* the call into which no result is piped
NoPipe == [by |-> "none", in |-> NoValue]

\* the engine, evaluating a pipeline, calls helper o with arguments a; r is the
\* call's outcome, clock the reading of time.Now (NoValue when the call reads no
\* clock) and from the helper whose result is piped into this call, with the
\* argument it had (NoPipe when the call is the first of its pipeline)
Call(o, a, r, clock, from) ==
  /\ op' = o
  /\ args' = a
  /\ ret' = r.val
  /\ err' = r.err
  /\ panicked' = r.panic
  /\ now' = clock
  /\ piped' = from

CallLoop == Idle /\ \E n \in (-MaxN)..MaxN : Call("loop", <<IntV(n)>>, loop(n), NoValue, NoPipe)

CallDateFormatNow ==
  /\ Idle
  /\ \E layout \in Layouts, clock \in Clock :
      Call("dateFormat", <<StrV(layout), NilV>>, dateFormat(layout, NilV, clock), clock, NoPipe)

CallDateFormat ==
  /\ Idle
  /\ \E layout \in Layouts, v \in DateInputs \ {NilV} :
      Call("dateFormat", <<StrV(layout), v>>, dateFormat(layout, v, NoValue), NoValue, NoPipe)

CallHtmlEscape == Idle /\ \E v \in EscapeInputs : Call("htmlEscape", <<v>>, htmlEscape(v), NoValue, NoPipe)

CallHtmlUnescape ==
  /\ Idle
  /\ \E v \in UnescapeInputs : Call("htmlUnescape", <<v>>, htmlUnescape(v), NoValue, NoPipe)

\* {{ x | htmlEscape | htmlUnescape }}: the result of htmlEscape is the argument
PipeHtmlUnescape ==
  /\ op = "htmlEscape" /\ err = NoError /\ ~panicked
  /\ Call("htmlUnescape", <<ret>>, htmlUnescape(ret), NoValue, [by |-> op, in |-> args[1]])

\* the pipeline is done: nothing of a call outlives it
Return ==
  /\ ~Idle
  /\ op' = "none"
  /\ args' = <<>>
  /\ ret' = NoValue
  /\ err' = NoError
  /\ panicked' = FALSE
  /\ now' = NoValue
  /\ piped' = NoPipe

CallSafeHTML == Idle /\ \E v \in SafeInputs : Call("safeHTML", <<v>>, safeHTML(v), NoValue, NoPipe)

CallSafeURL == Idle /\ \E v \in SafeInputs : Call("safeURL", <<v>>, safeURL(v), NoValue, NoPipe)

CallDict == Idle /\ \E values \in ArgLists : Call("dict", values, dictionary(values), NoValue, NoPipe)

CallQuerify ==
  /\ Idle
  /\ \E params \in ArgLists :
      \E order \in (IF dictionary(params).err = NoError
                    THEN Orders(dictionary(params).val.m) ELSE {<<>>}) :
        Call("querify", params, querify(params, order), NoValue, NoPipe)

CallSplit ==
  /\ Idle
  /\ \E a \in SplitInputs, delimiter \in Delimiters :
      Call("split", <<a, StrV(delimiter)>>, split(a, delimiter), NoValue, NoPipe)

Init ==
  /\ op = "none"
  /\ args = <<>>
  /\ ret = NoValue
  /\ err = NoError
  /\ panicked = FALSE
  /\ now = NoValue
  /\ piped = NoPipe

Next ==
  \/ CallLoop
  \/ CallDateFormatNow
  \/ CallDateFormat
  \/ CallHtmlEscape
  \/ CallHtmlUnescape
  \/ PipeHtmlUnescape
  \/ CallSafeHTML
  \/ CallSafeURL
  \/ CallDict
  \/ CallQuerify
  \/ CallSplit
  \/ Return

Spec == Init /\ [][Next]_vars

---------------------------------------------------------------------------
(* Properties *)

\* the key positions of an argument list: the even 0-based indices
KeyPositions(values) == {i \in 1..Len(values) : i % 2 = 1}

AllKeysStrings(values) == \A i \in KeyPositions(values) : values[i].tag = "string"

\* C1: dict with an odd number of arguments fails with the arity error and
\* returns no mapping, whatever the arguments are, non-string keys included.
C1_OddArity ==
  (op = "dict" /\ Len(args) % 2 = 1)
    => (err = "invalid dict call" /\ ret = NilV /\ ~panicked)

C1_Witness ==
  /\ op = "dict" /\ Len(args) = 3
  /\ args[1].tag /= "string"
  /\ err = "invalid dict call" /\ ret = NilV

\* C2 as claimed: dict with a non-string value at some key position fails with
\* the key-type error, whatever the length of the argument list.
C2_AnyLength ==
  (op = "dict" /\ ~AllKeysStrings(args))
    => (err = "dict keys must be strings" /\ ret = NilV)

\* C2, amended: dict with an even number of arguments and a non-string value at
\* some key position fails with the key-type error and returns no mapping,
\* wherever the non-string key is.
C2_KeyType ==
  (op = "dict" /\ Len(args) % 2 = 0 /\ ~AllKeysStrings(args))
    => (err = "dict keys must be strings" /\ ret = NilV /\ ~panicked)

C2_Witness ==
  /\ op = "dict" /\ Len(args) = 4
  /\ args[1].tag = "string" /\ args[3].tag /= "string"
  /\ err = "dict keys must be strings" /\ ret = NilV

\* the position of the last pair of values whose key is k
LastPair(values, k) ==
  CHOOSE i \in KeyPositions(values) :
    /\ values[i].s = k
    /\ \A j \in KeyPositions(values) : values[j].s = k => j <= i

\* C3: dict with an even number of arguments whose keys are all strings
\* succeeds; the keys of the mapping are exactly the distinct keys given (one
\* entry per pair when no key repeats, fewer otherwise) and every key maps to
\* the value of the last pair that carries it.
C3_Mapping ==
  (op = "dict" /\ Len(args) % 2 = 0 /\ AllKeysStrings(args))
    => /\ err = NoError /\ ~panicked
       /\ ret.tag = "map"
       /\ DOMAIN ret.m = {args[i].s : i \in KeyPositions(args)}
       /\ Cardinality(DOMAIN ret.m) <= Len(args) \div 2
       /\ (\A i, j \in KeyPositions(args) : i /= j => args[i] /= args[j])
            => Cardinality(DOMAIN ret.m) = Len(args) \div 2
       /\ \A k \in DOMAIN ret.m : ret.m[k] = args[LastPair(args, k) + 1]

C3_Witness ==
  /\ op = "dict" /\ Len(args) = 4 /\ err = NoError
  /\ args[1] = args[3] /\ args[1].tag = "string" /\ args[2] /= args[4]
  /\ DOMAIN ret.m = {args[1].s}
  /\ ret.m[args[1].s] = args[4]

\* the pairs of an argument list in the order p, a permutation of their numbers
Reorder(values, p) ==
  [i \in 1..Len(values) |-> values[2 * (p[(i + 1) \div 2] - 1) + 2 - (i % 2)]]

PairOrders(values) ==
  {p \in [1..(Len(values) \div 2) -> 1..(Len(values) \div 2)] :
     \A n \in 1..(Len(values) \div 2) : \E i \in 1..(Len(values) \div 2) : p[i] = n}

\* querify gives s for the pairs of values in every order, whatever the order
\* of the map's iteration
SameForEveryOrdering(values, s) ==
  \A p \in PairOrders(values) :
    \A order \in Orders(dictionary(Reorder(values, p)).val.m) :
      querify(Reorder(values, p), order) = Result(StrV(s), NoError)

\* s is the query-escaped key=value pairs of mapping m, by ascending key,
\* joined by "&"
SortedPairs(m, s) ==
  \E keys \in Orders(m) :
    /\ \A i \in 1..(Len(keys) - 1) : StrLess(keys[i], keys[i + 1])
    /\ s = Join([i \in 1..Len(keys) |->
                   QueryEscape(keys[i]) \o <<"=">> \o QueryEscape(Sprint(m[keys[i]]))],
                <<"&">>)

ValidArgs(values) == Len(values) % 2 = 0 /\ AllKeysStrings(values)

\* querify("b", "2", "a", "1") is "a=1&b=2"
QuerifyExample ==
  (op = "querify"
     /\ args = <<StrV(<<"b">>), StrV(<<"2">>), StrV(<<"a">>), StrV(<<"1">>)>>)
    => ret = StrV(<<"a", "=", "1", "&", "b", "=", "2">>)

\* C4 as claimed: for valid arguments querify returns the key=value pairs of
\* the mapping joined by "&" in ascending order of the keys, and the result is
\* the same for every ordering of the pairs given.
C4_AnyOrdering ==
  (op = "querify" /\ ValidArgs(args))
    => /\ err = NoError
       /\ SortedPairs(dictionary(args).val.m, ret.s)
       /\ SameForEveryOrdering(args, ret.s)

\* C4, amended: for valid arguments querify returns the query-escaped
\* key=value pairs of the mapping joined by "&" in ascending order of the
\* keys, whatever the order of the map's iteration; when no key repeats, the
\* result is the same for every ordering of the pairs given.
C4_SortedQuery ==
  (op = "querify" /\ ValidArgs(args))
    => /\ err = NoError /\ ~panicked
       /\ SortedPairs(dictionary(args).val.m, ret.s)
       /\ (\A i, j \in KeyPositions(args) : i /= j => args[i] /= args[j])
            => SameForEveryOrdering(args, ret.s)
       /\ QuerifyExample

C4_Witness ==
  /\ op = "querify"
  /\ args = <<StrV(<<"b">>), StrV(<<"2">>), StrV(<<"a">>), StrV(<<"1">>)>>
  /\ ret = StrV(<<"a", "=", "1", "&", "b", "=", "2">>)
  /\ err = NoError

\* C5: whenever dictionary fails on the arguments of querify, for their number
\* or for a key, querify returns the empty string and the one querify error;
\* the error of dictionary does not show.
C5_GenericError ==
  (op = "querify" /\ ~ValidArgs(args))
    => /\ dictionary(args).err /= NoError
       /\ err = "querify keys must be strings"
       /\ err /= dictionary(args).err
       /\ ret = StrV(<<>>)
       /\ ~panicked

C5_Witness ==
  /\ op = "querify" /\ Len(args) % 2 = 1
  /\ dictionary(args).err = "invalid dict call"
  /\ err = "querify keys must be strings" /\ ret = StrV(<<>>)

\* C6: loop(n) for n >= 0 returns exactly n elements, none carrying data;
\* loop(3) has 3 elements and loop(0) none.
C6_LoopLength ==
  (op = "loop" /\ args[1].n >= 0)
    => /\ ~panicked /\ err = NoError
       /\ ret.tag = "slice"
       /\ Len(ret.elems) = args[1].n
       /\ \A i \in 1..Len(ret.elems) : ret.elems[i] = StructV
       /\ (args[1].n = 0 => ret.elems = <<>>)

C6_Witness == op = "loop" /\ args[1].n = 3 /\ Len(ret.elems) = 3 /\ ~panicked

\* C7: loop(n) for n < 0 does not panic: it ends in an error or in the empty
\* sequence.
C7_NegativeNoPanic ==
  (op = "loop" /\ args[1].n < 0)
    => (~panicked /\ (err /= NoError \/ ret = Slice(<<>>)))

\* the characters of string s
Chars(s) == {s[i] : i \in 1..Len(s)}

\* C8: for a string s of the characters < > & ' and " only,
\* htmlUnescape(htmlEscape(s)) succeeds and is s.
C8_RoundTrip ==
  (op = "htmlUnescape" /\ piped.by = "htmlEscape"
     /\ piped.in.tag = "string" /\ Chars(piped.in.s) \subseteq HtmlChars)
    => (err = NoError /\ ~panicked /\ ret = piped.in)

C8_Witness ==
  /\ op = "htmlUnescape" /\ piped.by = "htmlEscape"
  /\ piped.in = StrV(<<"&", "<", "'">>)
  /\ args[1] = StrV(<<"&", "a", "m", "p", ";", "&", "l", "t", ";", "&", "#", "3", "9", ";">>)
  /\ ret = piped.in /\ err = NoError

\* elems are the substrings of s between the successive occurrences of d, from
\* the left: joined by d they give s, no element reaches into an occurrence of
\* d, and the last holds none
SubstringsBetween(elems, s, d) ==
  /\ Len(elems) >= 1
  /\ Join(elems, d) = s
  /\ \A i \in 1..(Len(elems) - 1) : Index(elems[i] \o d, d) = Len(elems[i])
  /\ Index(elems[Len(elems)], d) = -1

\* split("a,b,,c", ",") is ["a", "b", "", "c"]
SplitExample ==
  (op = "split" /\ args = <<StrV(<<"a", ",", "b", ",", ",", "c">>), StrV(<<",">>)>>)
    => ret = Slice(<<<<"a">>, <<"b">>, <<>>, <<"c">>>>)

\* C9 as claimed: for a value that coerces to the string s and any delimiter d,
\* split returns without error the substrings of s between the successive
\* occurrences of d, empty ones kept, and [""] for the empty s.
C9_AnyDelimiter ==
  (op = "split" /\ ToStringE(args[1]).err = NoError)
    => /\ err = NoError
       /\ ret.tag = "slice"
       /\ SubstringsBetween(ret.elems, ToStringE(args[1]).val, args[2].s)
       /\ (ToStringE(args[1]).val = <<>> => ret.elems = <<<<>>>>)

\* C9, amended: for a value that coerces to the string s and a non-empty
\* delimiter d, split returns without error the substrings of s between the
\* successive occurrences of d, empty ones kept, and [""] for the empty s; for
\* the empty delimiter it returns the characters of s, none for the empty s.
C9_SplitLiteral ==
  (op = "split" /\ ToStringE(args[1]).err = NoError)
    => /\ err = NoError /\ ~panicked
       /\ ret.tag = "slice"
       /\ args[2].s /= <<>> =>
            /\ SubstringsBetween(ret.elems, ToStringE(args[1]).val, args[2].s)
            /\ (ToStringE(args[1]).val = <<>> => ret.elems = <<<<>>>>)
       /\ args[2].s = <<>> =>
            /\ Len(ret.elems) = Len(ToStringE(args[1]).val)
            /\ \A i \in 1..Len(ret.elems) : ret.elems[i] = <<ToStringE(args[1]).val[i]>>
       /\ SplitExample

C9_Witness ==
  /\ op = "split"
  /\ args = <<StrV(<<"a", ",", "b", ",", ",", "c">>), StrV(<<",">>)>>
  /\ ret = Slice(<<<<"a">>, <<"b">>, <<>>, <<"c">>>>)
  /\ err = NoError

\* the layout is empty or made only of .999 fields, which write nothing for a
\* fraction of zero
RECURSIVE OnlyTrimmedFractions(_)
OnlyTrimmedFractions(layout) ==
  \/ layout = <<>>
  \/ /\ nextStdChunk(layout).prefix = <<>>
     /\ nextStdChunk(layout).std = "stdFracSecond9"
     /\ OnlyTrimmedFractions(nextStdChunk(layout).suffix)

\* dateFormat fails on a value that is not null and cannot be coerced to a time
CoercionFails ==
  (op = "dateFormat" /\ args[2] /= NilV /\ ToTimeE(args[2]).err /= NoError)
    => (err = ToTimeE(args[2]).err /\ ret = StrV(<<>>) /\ ~panicked)

\* C10 as claimed: dateFormat(layout, null) takes the current time, coerces
\* nothing, does not fail and returns a non-empty string, for every layout; a
\* value that cannot be coerced fails with the coercion error and the empty
\* string.
C10_NeverEmpty ==
  /\ (op = "dateFormat" /\ args[2] = NilV)
       => (err = NoError /\ now /= NoValue /\ ret.s /= <<>>)
  /\ CoercionFails

\* C10, amended: dateFormat(layout, null) takes the current time, coerces
\* nothing, does not fail and returns that time in the layout, a string that is
\* empty only for a layout that is empty or made of .999 fractional-second
\* fields alone; a value that cannot be coerced fails with the coercion error
\* and the empty string.
C10_DateFormat ==
  /\ (op = "dateFormat" /\ args[2] = NilV)
       => /\ err = NoError /\ ~panicked
          /\ now \in Clock
          /\ ret = StrV(Format(now, args[1].s))
          /\ (ret.s = <<>> => OnlyTrimmedFractions(args[1].s))
  /\ CoercionFails

C10_Witness ==
  /\ op = "dateFormat" /\ args[2] = NilV
  /\ args[1] = StrV(<<"2", "0", "0", "6">>)
  /\ now.year = 2026
  /\ ret = StrV(<<"2", "0", "2", "6">>) /\ err = NoError

====
